---- MODULE Spec2Model ----
(***************************************************************************)
(* HLD generation workflow: a shared workspace (HLDState) driven through   *)
(* six stage nodes by one of three LangGraph graphs (sequential, parallel, *)
(* conditional).  src/workflow/nodes.py and src/workflow/graph.py are      *)
(* modelled from the code; HLDState, the agents and the run wrapper are    *)
(* not part of the sources and follow the written specification.           *)
(***************************************************************************)
EXTENDS Integers, Sequences, FiniteSets, TLC

(* ---- bounds ---- *)

\* supersteps a run may take before the graph gives up (GraphRecursionError)
RecursionLimit == 15

\* longest list or mapping among the values handed to _to_py
MaxLen == 2

\* deepest nesting among the values handed to _to_py
MaxDepth == 3

\* calls made on one workspace when its operations are exercised on their own
MaxCalls == 3

(* ---- names ---- *)

\* keys of get_node_runnables, in declaration order
Stages == <<"pdf_extraction", "auth_integrations", "domain_api_design",
            "behavior_quality", "diagram_generation", "output_composition">>

StageSet == {Stages[i] : i \in 1..Len(Stages)}

AnalysisStages == {"auth_integrations", "domain_api_design", "behavior_quality"}

LaterStages == StageSet \ {"pdf_extraction"}

Policies == {"sequential", "parallel", "conditional"}

\* what one invocation of an agent's backend can do
Outcomes == {"ok", "warn", "llm", "parse"}

\* the outcomes a resumed run is checked with (one kind of backend failure)
ResumeOutcomes == {"ok", "warn", "llm"}

\* contents of the requirements document (decides what the backend extracts)
Docs == {"d1", "d2"}

StageIndex(s) == CHOOSE i \in 1..Len(Stages) : Stages[i] = s

Range(q) == {q[i] : i \in 1..Len(q)}

(* ---- Workspace (HLDState) ---- *)

\* HLDState as built by create_initial_state: every stage pending, nothing set
create_initial_state ==
    [pdf_path |-> "selected_path",
     requirement_name |-> "selected_name",
     status   |-> [s \in StageSet |-> "pending"],
     errors   |-> <<>>,
     warnings |-> <<>>,
     facet    |-> [s \in StageSet |-> "empty"]]

\* an update that writes the state into every stage's entry
update_status_All(ws, stage, st) ==
    [ws EXCEPT !.status = [s \in StageSet |-> st]]

update_status(ws, stage, st) ==
    [ws EXCEPT !.status = [ws.status EXCEPT ![stage] = st]]

add_error(ws, stage, kind) ==
    [ws EXCEPT !.errors = Append(ws.errors, <<stage, kind>>)]

add_warning(ws, stage) ==
    [ws EXCEPT !.warnings = Append(ws.warnings, <<stage>>)]

is_stage_completed(ws, stage) == ws.status[stage] = "completed"

has_errors(ws) == Len(ws.errors) > 0

\* hld_state.dict() plus the "_node_result" key the node adds
ToDict(ws, result) ==
    [pdf_path |-> ws.pdf_path, requirement_name |-> ws.requirement_name,
     status |-> ws.status, errors |-> ws.errors, warnings |-> ws.warnings,
     facet |-> ws.facet, node_result |-> <<result>>]

\* HLDState(**state): the model's fields are read, "_node_result" is not one
FromDict(d) ==
    [pdf_path |-> d.pdf_path, requirement_name |-> d.requirement_name,
     status |-> d.status, errors |-> d.errors, warnings |-> d.warnings,
     facet |-> d.facet]

\* the dict handed to graph.invoke for a fresh run
InitialDict ==
    [pdf_path |-> create_initial_state.pdf_path,
     requirement_name |-> create_initial_state.requirement_name,
     status |-> create_initial_state.status,
     errors |-> create_initial_state.errors,
     warnings |-> create_initial_state.warnings,
     facet |-> create_initial_state.facet,
     node_result |-> <<>>]

(* ---- Stage agents ---- *)

\* what an agent needs in the workspace before it calls its backend
Precondition(ws, stage, ok) ==
    CASE stage = "pdf_extraction" -> ok
      [] stage \in AnalysisStages -> ws.facet["pdf_extraction"] # "empty"
      [] stage = "diagram_generation" ->
            \/ ws.facet["domain_api_design"] # "empty"
            \/ ws.facet["behavior_quality"] # "empty"
      [] OTHER -> ws.facet["pdf_extraction"] # "empty"

\* what the invocation amounts to: a failed precondition makes no backend call
Effective(ws, stage, ok, o) ==
    IF Precondition(ws, stage, ok) THEN o ELSE "input"

\* step 1 of process
AgentBegin(ws, stage) == update_status(ws, stage, "processing")

\* steps 2..8 of process, for an invocation that amounts to e
AgentApply(ws, stage, e, d) ==
    IF e \in {"input", "llm", "parse"}
    THEN add_error(update_status(ws, stage, "failed"), stage, e)
    ELSE LET w1 == [ws EXCEPT !.facet = [ws.facet EXCEPT ![stage] = d]]
             w2 == IF e = "warn" THEN add_warning(w1, stage) ELSE w1
         IN update_status(w2, stage, "completed")

AgentFinish(ws, stage, ok, o, d) ==
    AgentApply(ws, stage, Effective(ws, stage, ok, o), d)

\* the dict process returns
AgentResult(ws, stage, ok, o) ==
    LET e == Effective(ws, stage, ok, o) IN
    IF e \in {"input", "llm", "parse"}
    THEN [success |-> FALSE, error |-> e]
    ELSE [success |-> TRUE, error |-> "none"]

\* a node that forgets to set "_node_result"
updated_state_NoResult(d, hld_state, result) ==
    [ToDict(hld_state, result) EXCEPT !.node_result = <<>>]

\* a node that returns only the status entries its agent changed
updated_state_Delta(d, hld_state, result) ==
    [ToDict(hld_state, result) EXCEPT
        !.status = [s \in {x \in StageSet : hld_state.status[x] # d.status[x]}
                       |-> hld_state.status[s]]]

\* a node that returns only the errors and warnings its agent added
updated_state_NewDiagnostics(d, hld_state, result) ==
    [ToDict(hld_state, result) EXCEPT
        !.errors = SubSeq(hld_state.errors, Len(d.errors) + 1,
                          Len(hld_state.errors)),
        !.warnings = SubSeq(hld_state.warnings, Len(d.warnings) + 1,
                            Len(hld_state.warnings))]

\* a node that builds its dict without the job's identity
updated_state_NoIdentity(d, hld_state, result) ==
    [ToDict(hld_state, result) EXCEPT !.pdf_path = "", !.requirement_name = ""]

\* a node that hands process a copy and returns the state it was called with
updated_state_Copy(d, hld_state, result) == ToDict(FromDict(d), result)

\* what a stage node returns: the processed state with "_node_result" set;
\* d is the dict the node was called with
updated_state(d, hld_state, result) == ToDict(hld_state, result)

\* the workspace after the invocations of tr, in order, on ws
RECURSIVE RunStages(_, _, _)
RunStages(ws, tr, d) ==
    IF tr = <<>> THEN ws
    ELSE RunStages(AgentApply(AgentBegin(ws, Head(tr)[1]),
                              Head(tr)[1], Head(tr)[2], d),
                   Tail(tr), d)

(* ---- Normalizer (_to_py) ---- *)

\* characters of a key: 0..9 are the decimal digits, NonDigit any other one
NonDigit == 10

\* a str key with the characters cs
StrKey(cs) == [int |-> FALSE, chars |-> cs]

\* decimal digits of n: str(n) for an int n >= 0
RECURSIVE ToStr(_)
ToStr(n) == IF n < 10 THEN <<n>> ELSE Append(ToStr(n \div 10), n % 10)

\* a native int key n >= 0; chars is what str(k) gives
IntKey(n) == [int |-> TRUE, chars |-> ToStr(n)]

\* str(k).isdigit()
isdigit(k) == Len(k.chars) > 0 /\ \A i \in 1..Len(k.chars) : k.chars[i] \in 0..9

\* int(k) of a key that passed isdigit: leading zeros do not count
RECURSIVE ToInt(_)
ToInt(cs) ==
    IF cs = <<>> THEN 0
    ELSE 10 * ToInt(SubSeq(cs, 1, Len(cs) - 1)) + cs[Len(cs)]

\* values: scalars, lists, dicts (keys[i] maps to items[i], in insertion
\* order) and Raised, which stands for the call raising
Scalar(x) == [t |-> "scalar", s |-> x, keys |-> <<>>, items |-> <<>>]

List(vs) == [t |-> "list", s |-> 0, keys |-> <<>>, items |-> vs]

Dict(ks, vs) == [t |-> "dict", s |-> 0, keys |-> ks, items |-> vs]

Raised == [t |-> "raised", s |-> 0, keys |-> <<>>, items |-> <<>>]

NoValue == [t |-> "none", s |-> 0, keys |-> <<>>, items |-> <<>>]

\* a comprehension raises as soon as one of its elements does
Built(v) == IF \E i \in 1..Len(v.items) : v.items[i] = Raised THEN Raised ELSE v

\* o[k]: KeyError unless k is a key of o; a str never equals an int
GetItem(o, k) ==
    IF \E i \in 1..Len(o.keys) : o.keys[i] = k
    THEN o.items[CHOOSE i \in 1..Len(o.keys) : o.keys[i] = k]
    ELSE Raised

\* sorted(q) for a sequence of ints
RECURSIVE sorted(_)
sorted(q) ==
    IF q = <<>> THEN <<>>
    ELSE LET i == CHOOSE j \in 1..Len(q) : \A k \in 1..Len(q) : q[j] <= q[k]
         IN <<q[i]>> \o sorted(SubSeq(q, 1, i - 1) \o SubSeq(q, i + 1, Len(q)))

\* map(int, keys)
IntsOf(ks) == [i \in 1..Len(ks) |-> ToInt(ks[i].chars)]

\* the test of _to_py: keys and all(str(k).isdigit() for k in keys)
AllDigitKeys(o) == Len(o.keys) > 0 /\ \A i \in 1..Len(o.keys) : isdigit(o.keys[i])

\* _to_py without the sort: the values in insertion order
RECURSIVE ToPy_NoSort(_)
ToPy_NoSort(o) ==
    IF o.t = "dict"
    THEN IF AllDigitKeys(o)
         THEN Built(List([i \in 1..Len(o.keys) |-> ToPy_NoSort(o.items[i])]))
         ELSE Built(Dict(o.keys, [i \in 1..Len(o.items) |-> ToPy_NoSort(o.items[i])]))
    ELSE IF o.t = "list"
    THEN Built(List([i \in 1..Len(o.items) |-> ToPy_NoSort(o.items[i])]))
    ELSE o

\* _to_py that does not walk into lists
RECURSIVE ToPy_ShallowList(_)
ToPy_ShallowList(o) ==
    IF o.t = "dict"
    THEN IF AllDigitKeys(o)
         THEN LET ints == sorted(IntsOf(o.keys)) IN
              Built(List([i \in 1..Len(ints) |->
                  ToPy_ShallowList(GetItem(o, StrKey(ToStr(ints[i]))))]))
         ELSE Built(Dict(o.keys,
                  [i \in 1..Len(o.items) |-> ToPy_ShallowList(o.items[i])]))
    ELSE o

\* _to_py whose test lost its "keys and": all() of no keys is true
RECURSIVE ToPy_EmptyAsList(_)
ToPy_EmptyAsList(o) ==
    IF o.t = "dict"
    THEN IF \A i \in 1..Len(o.keys) : isdigit(o.keys[i])
         THEN LET ints == sorted(IntsOf(o.keys)) IN
              Built(List([i \in 1..Len(ints) |->
                  ToPy_EmptyAsList(GetItem(o, StrKey(ToStr(ints[i]))))]))
         ELSE Built(Dict(o.keys,
                  [i \in 1..Len(o.items) |-> ToPy_EmptyAsList(o.items[i])]))
    ELSE IF o.t = "list"
    THEN Built(List([i \in 1..Len(o.items) |-> ToPy_EmptyAsList(o.items[i])]))
    ELSE o

\* _to_py that takes the values of an index-keyed mapping as they are
RECURSIVE ToPy_RawElements(_)
ToPy_RawElements(o) ==
    IF o.t = "dict"
    THEN IF AllDigitKeys(o)
         THEN LET ints == sorted(IntsOf(o.keys)) IN
              Built(List([i \in 1..Len(ints) |->
                  GetItem(o, StrKey(ToStr(ints[i])))]))
         ELSE Built(Dict(o.keys,
                  [i \in 1..Len(o.items) |-> ToPy_RawElements(o.items[i])]))
    ELSE IF o.t = "list"
    THEN Built(List([i \in 1..Len(o.items) |-> ToPy_RawElements(o.items[i])]))
    ELSE o

RECURSIVE ToPy(_)
ToPy(o) ==
    IF o.t = "dict"
    THEN IF AllDigitKeys(o)
         THEN LET ints == sorted(IntsOf(o.keys)) IN
              Built(List([i \in 1..Len(ints) |->
                  ToPy(GetItem(o, StrKey(ToStr(ints[i]))))]))
         ELSE Built(Dict(o.keys, [i \in 1..Len(o.items) |-> ToPy(o.items[i])]))
    ELSE IF o.t = "list"
    THEN Built(List([i \in 1..Len(o.items) |-> ToPy(o.items[i])]))
    ELSE o

\* the keys the inputs are built from: "0", "1", "01", a non-numeric one,
\* and the native ints 0 and 1
Keys == {StrKey(<<0>>), StrKey(<<1>>), StrKey(<<0, 1>>),
         StrKey(<<NonDigit>>), IntKey(0), IntKey(1)}

\* the keys of the one-element dicts put around a value: "0", "01" and a
\* non-numeric one
WrapKeys == {StrKey(<<0>>), StrKey(<<0, 1>>), StrKey(<<NonDigit>>)}

Scalars == {Scalar(1), Scalar(2)}

\* sequences over S of length lo..hi
SeqsOf(S, lo, hi) == UNION {[1..n -> S] : n \in lo..hi}

\* sequences of distinct keys
KeySeqs(lo, hi) ==
    {ks \in SeqsOf(Keys, lo, hi) :
        \A i, j \in 1..Len(ks) : i # j => ks[i] # ks[j]}

\* lists and dicts of len lo..hi whose elements are in S
Containers(S, lo, hi) ==
    {List(vs) : vs \in SeqsOf(S, lo, hi)}
    \cup UNION {{Dict(ks, vs) : vs \in [1..Len(ks) -> S]} : ks \in KeySeqs(lo, hi)}

\* a list or a dict of one element around v
Wrapped(S) ==
    {List(<<v>>) : v \in S} \cup {Dict(<<k>>, <<v>>) : k \in WrapKeys, v \in S}

\* the inputs: every value of depth 1 up to MaxLen elements wide, and around
\* them lists and dicts of one element up to MaxDepth deep
RECURSIVE Values(_)
Values(d) ==
    IF d = 0 THEN Scalars
    ELSE IF d = 1
    THEN Scalars \cup Containers(Scalars \cup {Dict(<<>>, <<>>)}, 0, MaxLen)
    ELSE LET S == Values(d - 1) IN S \cup Wrapped(S)

(* ---- Routing ---- *)

\* a router that looks at diagram_generation before behavior_quality
should_continue_DiagramFirst(d) ==
    LET hld_state == FromDict(d) IN
    IF has_errors(hld_state) /\ hld_state.status["pdf_extraction"] = "failed"
    THEN "END"
    ELSE IF ~is_stage_completed(hld_state, "pdf_extraction") THEN "pdf_extraction"
    ELSE IF ~is_stage_completed(hld_state, "auth_integrations") THEN "auth_integrations"
    ELSE IF ~is_stage_completed(hld_state, "domain_api_design") THEN "domain_api_design"
    ELSE IF ~is_stage_completed(hld_state, "diagram_generation") THEN "diagram_generation"
    ELSE IF ~is_stage_completed(hld_state, "behavior_quality") THEN "behavior_quality"
    ELSE IF ~is_stage_completed(hld_state, "output_composition") THEN "output_composition"
    ELSE "END"

\* a router whose domain_api_design test lost its "not"
should_continue_RerunsDomain(d) ==
    LET hld_state == FromDict(d) IN
    IF has_errors(hld_state) /\ hld_state.status["pdf_extraction"] = "failed"
    THEN "END"
    ELSE IF ~is_stage_completed(hld_state, "pdf_extraction") THEN "pdf_extraction"
    ELSE IF ~is_stage_completed(hld_state, "auth_integrations") THEN "auth_integrations"
    ELSE IF is_stage_completed(hld_state, "domain_api_design") THEN "domain_api_design"
    ELSE IF ~is_stage_completed(hld_state, "behavior_quality") THEN "behavior_quality"
    ELSE IF ~is_stage_completed(hld_state, "diagram_generation") THEN "diagram_generation"
    ELSE IF ~is_stage_completed(hld_state, "output_composition") THEN "output_composition"
    ELSE "END"

\* a router that never looks at output_composition
should_continue_NoOutput(d) ==
    LET hld_state == FromDict(d) IN
    IF has_errors(hld_state) /\ hld_state.status["pdf_extraction"] = "failed"
    THEN "END"
    ELSE IF ~is_stage_completed(hld_state, "pdf_extraction") THEN "pdf_extraction"
    ELSE IF ~is_stage_completed(hld_state, "auth_integrations") THEN "auth_integrations"
    ELSE IF ~is_stage_completed(hld_state, "domain_api_design") THEN "domain_api_design"
    ELSE IF ~is_stage_completed(hld_state, "behavior_quality") THEN "behavior_quality"
    ELSE IF ~is_stage_completed(hld_state, "diagram_generation") THEN "diagram_generation"
    ELSE "END"

should_continue(d) ==
    LET hld_state == FromDict(d) IN
    IF has_errors(hld_state) /\ hld_state.status["pdf_extraction"] = "failed"
    THEN "END"
    ELSE IF ~is_stage_completed(hld_state, "pdf_extraction") THEN "pdf_extraction"
    ELSE IF ~is_stage_completed(hld_state, "auth_integrations") THEN "auth_integrations"
    ELSE IF ~is_stage_completed(hld_state, "domain_api_design") THEN "domain_api_design"
    ELSE IF ~is_stage_completed(hld_state, "behavior_quality") THEN "behavior_quality"
    ELSE IF ~is_stage_completed(hld_state, "diagram_generation") THEN "diagram_generation"
    ELSE IF ~is_stage_completed(hld_state, "output_composition") THEN "output_composition"
    ELSE "END"

\* a chain whose edge out of auth_integrations skips domain_api_design
SequentialEdges_SkipsDomain(n) ==
    CASE n = "pdf_extraction" -> {"auth_integrations"}
      [] n = "auth_integrations" -> {"behavior_quality"}
      [] n = "behavior_quality" -> {"diagram_generation"}
      [] n = "diagram_generation" -> {"output_composition"}
      [] OTHER -> {}

\* edges of create_workflow_graph; {} is END
SequentialEdges(n) ==
    CASE n = "pdf_extraction" -> {"auth_integrations"}
      [] n = "auth_integrations" -> {"domain_api_design"}
      [] n = "domain_api_design" -> {"behavior_quality"}
      [] n = "behavior_quality" -> {"diagram_generation"}
      [] n = "diagram_generation" -> {"output_composition"}
      [] OTHER -> {}

\* edges of create_parallel_workflow_graph; {} is END
ParallelEdges(n) ==
    CASE n = "pdf_extraction" -> {"parallel_coordinator"}
      [] n = "parallel_coordinator" ->
            {"auth_integrations", "domain_api_design", "behavior_quality"}
      [] n \in AnalysisStages -> {"diagram_generation"}
      [] n = "diagram_generation" -> {"output_composition"}
      [] OTHER -> {}

\* edges of create_conditional_workflow_graph; {} is END
ConditionalEdges(n, d) ==
    IF n = "router"
    THEN (IF should_continue(d) = "END" THEN {} ELSE {should_continue(d)})
    ELSE {"router"}

EntryPoint(p) == IF p = "conditional" THEN "router" ELSE "pdf_extraction"

Edges(p, n, d) ==
    CASE p = "sequential" -> SequentialEdges(n)
      [] p = "parallel" -> ParallelEdges(n)
      [] OTHER -> ConditionalEdges(n, d)

(* ---- Configuration ---- *)

\* the values the sidebar offers
ImageFormats == {"svg", "png"}

Renderers == {"kroki", "mmdc"}

Themes == {"default", "neutral", "dark"}

\* ConfigSchema(...): TRUE when the constructor accepts the values
ConfigSchema(c) ==
    /\ c.image_format \in ImageFormats
    /\ c.renderer \in Renderers
    /\ c.theme \in Themes

(* ---- Run result ---- *)

\* the run wrapper's outcome: success means every critical stage completed
RunResult(d) ==
    [success  |-> d.status["pdf_extraction"] = "completed",
     errors   |-> d.errors,
     warnings |-> d.warnings]

(* ---- State ---- *)

VARIABLES
    policy,     \* workflow_type of the run
    valid,      \* whether pdf_path names a readable document
    doc,        \* contents of the document
    state,      \* the graph's state dict
    active,     \* nodes of the current superstep
    local,      \* node -> <<hld_state>> while the node runs, <<>> otherwise
    returned,   \* node -> <<dict>> once the node has returned in this superstep
    steps,      \* supersteps taken
    pc,         \* "running", "END", "InvalidUpdateError", "GraphRecursionError"
    result,     \* <<RunResult>> once the run has returned
    resumed,    \* stages already completed in the dict the run started from
    visited,    \* stages in the order their nodes started
    trace,      \* <<stage, effective outcome>> in the order the nodes returned
    norm,       \* the normalizer: its argument and, once called, what it gave
    cfg,        \* the "Generate HLD" handler: the settings and how far it got
    ops,        \* a workspace whose operations are called on their own
    route       \* should_continue called on a state dict of its own

vars == <<policy, valid, doc, state, active, local, returned, steps, pc,
          result, resumed, visited, trace, norm, cfg, ops, route>>

\* what the steps of a graph leave alone
inputs == <<policy, valid, doc, resumed, norm, cfg, ops, route>>

\* the graph's variables
workflow == <<policy, valid, doc, state, active, local, returned, steps, pc,
              result, resumed, visited, trace>>

NormIdle == [pc |-> "idle", arg |-> NoValue, out |-> NoValue]

CfgIdle ==
    [pc |-> "idle", render_images |-> TRUE, image_format |-> "png",
     renderer |-> "kroki", theme |-> "default", workspace |-> <<>>]

OpsIdle ==
    [calls |-> 0, ws |-> create_initial_state,
     last |-> [s \in StageSet |-> "none"], errs |-> 0]

\* the components that are not exercised
RouteIdle == [pc |-> "idle", arg |-> InitialDict, out |-> "none"]

Idle(n, c, o, r) ==
    /\ n => norm = NormIdle
    /\ c => cfg = CfgIdle
    /\ o => ops = OpsIdle
    /\ r => route = RouteIdle

Init ==
    /\ policy \in Policies
    /\ valid \in BOOLEAN
    /\ doc \in Docs
    /\ state = InitialDict
    /\ active = {EntryPoint(policy)}
    /\ local = [s \in StageSet |-> <<>>]
    /\ returned = [s \in StageSet |-> <<>>]
    /\ steps = 0
    /\ pc = "running"
    /\ result = <<>>
    /\ resumed = 0
    /\ visited = <<>>
    /\ trace = <<>>
    /\ Idle(TRUE, TRUE, TRUE, TRUE)

\* a conditional run handed the workspace an earlier run left after its first
\* stages completed; trace starts as what those stages did
InitResume ==
    /\ policy = "conditional"
    /\ doc \in Docs
    /\ resumed \in 0..(Len(Stages) - 1)
    /\ valid \in (IF resumed = 0 THEN BOOLEAN ELSE {TRUE})
    /\ trace \in [1..resumed -> StageSet \X {"ok", "warn"}]
    /\ \A i \in 1..resumed : trace[i][1] = Stages[i]
    /\ state = [pdf_path |-> create_initial_state.pdf_path,
                requirement_name |-> create_initial_state.requirement_name,
                status |-> RunStages(create_initial_state, trace, doc).status,
                errors |-> RunStages(create_initial_state, trace, doc).errors,
                warnings |-> RunStages(create_initial_state, trace, doc).warnings,
                facet |-> RunStages(create_initial_state, trace, doc).facet,
                node_result |-> <<>>]
    /\ active = {EntryPoint(policy)}
    /\ local = [s \in StageSet |-> <<>>]
    /\ returned = [s \in StageSet |-> <<>>]
    /\ steps = 0
    /\ pc = "running"
    /\ result = <<>>
    /\ visited = <<>>
    /\ Idle(TRUE, TRUE, TRUE, TRUE)

\* no run: the graph's variables while another component is exercised
NoRun ==
    /\ policy = "sequential"
    /\ valid = TRUE
    /\ doc = "d1"
    /\ state = InitialDict
    /\ active = {}
    /\ local = [s \in StageSet |-> <<>>]
    /\ returned = [s \in StageSet |-> <<>>]
    /\ steps = 0
    /\ pc = "idle"
    /\ result = <<>>
    /\ resumed = 0
    /\ visited = <<>>
    /\ trace = <<>>

\* _to_py about to be called on a value
InitNorm ==
    /\ NoRun
    /\ Idle(FALSE, TRUE, TRUE, TRUE)
    /\ norm \in {[pc |-> "call", arg |-> v, out |-> NoValue] : v \in Values(MaxDepth)}

(* ---- Actions ---- *)

\* a stage node is entered: HLDState(**state), then process sets "processing"
StartNode(n) ==
    /\ pc = "running"
    /\ steps < RecursionLimit
    /\ n \in active
    /\ local[n] = <<>>
    /\ returned[n] = <<>>
    /\ local' = [local EXCEPT ![n] = <<AgentBegin(FromDict(state), n)>>]
    /\ visited' = Append(visited, n)
    /\ UNCHANGED <<inputs, state, active, returned, steps, pc, result, trace>>

\* process returns and the node returns hld_state.dict() with "_node_result"
FinishNode(n, o) ==
    /\ pc = "running"
    /\ local[n] # <<>>
    /\ LET ws == local[n][1] IN
         /\ returned' = [returned EXCEPT ![n] =
                <<updated_state(state, AgentFinish(ws, n, valid, o, doc),
                                AgentResult(ws, n, valid, o))>>]
         /\ trace' = Append(trace, <<n, Effective(ws, n, valid, o)>>)
    /\ local' = [local EXCEPT ![n] = <<>>]
    /\ UNCHANGED <<inputs, state, active, steps, pc, result, visited>>

\* where the run goes once a superstep's single write d is applied
Advance(next, d) ==
    /\ state' = d
    /\ steps' = steps + 1
    /\ local' = [s \in StageSet |-> <<>>]
    /\ returned' = [s \in StageSet |-> <<>>]
    /\ active' = next
    /\ pc' = IF next = {} THEN "END" ELSE "running"
    /\ result' = IF next = {} THEN <<RunResult(d)>> ELSE result

\* end of a superstep of stage nodes: apply the writes, follow the edges.
\* Every node returns the whole state dict, and the state has no reducer, so
\* more than one write in a superstep is a concurrent-update error
\* (INVALID_CONCURRENT_GRAPH_UPDATE, src/test_parallel_fix.py:185)
Superstep ==
    /\ pc = "running"
    /\ active # {}
    /\ active \subseteq StageSet
    /\ \A n \in active : returned[n] # <<>>
    /\ IF Cardinality(active) > 1
       THEN /\ pc' = "InvalidUpdateError"
            /\ UNCHANGED <<state, active, local, returned, steps, result>>
       ELSE LET n == CHOOSE m \in active : TRUE
                d == returned[n][1]
            IN Advance(Edges(policy, n, d), d)
    /\ UNCHANGED <<inputs, visited, trace>>

\* the router node of the conditional graph and its conditional edges; the
\* node only chooses the next node, the state dict goes on as it is
Router ==
    /\ pc = "running"
    /\ steps < RecursionLimit
    /\ active = {"router"}
    /\ Advance(ConditionalEdges("router", state), state)
    /\ UNCHANGED <<inputs, visited, trace>>

\* the coordination node of the parallel graph: returns the state as it is
ParallelCoordinator ==
    /\ pc = "running"
    /\ steps < RecursionLimit
    /\ active = {"parallel_coordinator"}
    /\ Advance(ParallelEdges("parallel_coordinator"), state)
    /\ UNCHANGED <<inputs, visited, trace>>

\* the graph stops a run that has used up its supersteps
GraphRecursionError ==
    /\ pc = "running"
    /\ steps >= RecursionLimit
    /\ active # {}
    /\ pc' = "GraphRecursionError"
    /\ UNCHANGED <<inputs, state, active, local, returned, steps, result,
                   visited, trace>>

Next ==
    \/ \E n \in StageSet : StartNode(n)
    \/ \E n \in StageSet, o \in Outcomes : FinishNode(n, o)
    \/ Superstep
    \/ Router
    \/ ParallelCoordinator
    \/ GraphRecursionError

Spec == Init /\ [][Next]_vars

FairSpec == Spec /\ WF_vars(Next)

NextResume ==
    \/ \E n \in StageSet : StartNode(n)
    \/ \E n \in StageSet, o \in ResumeOutcomes : FinishNode(n, o)
    \/ Superstep
    \/ Router
    \/ GraphRecursionError

SpecResume == InitResume /\ [][NextResume]_vars

\* _to_py(arg) returns or raises
Normalize ==
    /\ norm.pc = "call"
    /\ norm' = [pc |-> "done", arg |-> norm.arg, out |-> ToPy(norm.arg)]
    /\ UNCHANGED <<workflow, cfg, ops, route>>

NextNorm == Normalize

SpecNorm == InitNorm /\ [][NextNorm]_vars

(* ---- The "Generate HLD" handler of main ---- *)

\* the button is pressed with some settings; the sidebar offers only the
\* recognized ones, a caller of ConfigSchema can pass any
InitConfig ==
    /\ NoRun
    /\ Idle(TRUE, FALSE, TRUE, TRUE)
    /\ cfg \in [pc : {"pressed"}, render_images : BOOLEAN,
                 image_format : ImageFormats \cup {"invalid", "jpg"},
                 renderer : Renderers \cup {"invalid"},
                 theme : Themes, workspace : {<<>>}]

\* config = ConfigSchema(...): accepted or raises
ConstructConfig ==
    /\ cfg.pc = "pressed"
    /\ cfg' = [cfg EXCEPT !.pc = IF ConfigSchema(cfg) THEN "configured"
                                                      ELSE "ValidationError"]
    /\ UNCHANGED <<workflow, norm, ops, route>>

\* a handler that swallows the error and goes on
RunWorkflow_Unchecked ==
    /\ cfg.pc \in {"configured", "ValidationError"}
    /\ cfg' = [cfg EXCEPT !.pc = "run",
                          !.workspace = <<create_initial_state>>]
    /\ UNCHANGED <<workflow, norm, ops, route>>

\* WorkflowInput, create_hld_workflow and workflow.run: the workspace is made
RunWorkflow ==
    /\ cfg.pc = "configured"
    /\ cfg' = [cfg EXCEPT !.pc = "run",
                          !.workspace = <<create_initial_state>>]
    /\ UNCHANGED <<workflow, norm, ops, route>>

NextConfig == ConstructConfig \/ RunWorkflow

SpecConfig == InitConfig /\ [][NextConfig]_vars

(* ---- Workspace operations called on their own ---- *)

InitOps ==
    /\ NoRun
    /\ Idle(TRUE, TRUE, FALSE, TRUE)
    /\ ops = OpsIdle

CallUpdateStatus(s, st) ==
    /\ ops.calls < MaxCalls
    /\ ops' = [ops EXCEPT !.calls = @ + 1,
                          !.ws = update_status(@, s, st),
                          !.last = [@ EXCEPT ![s] = st]]
    /\ UNCHANGED <<workflow, norm, cfg, route>>

CallAddError ==
    /\ ops.calls < MaxCalls
    /\ ops' = [ops EXCEPT !.calls = @ + 1,
                          !.ws = add_error(@, "test", "error"),
                          !.errs = @ + 1]
    /\ UNCHANGED <<workflow, norm, cfg, route>>

CallAddWarning ==
    /\ ops.calls < MaxCalls
    /\ ops' = [ops EXCEPT !.calls = @ + 1,
                          !.ws = add_warning(@, "test")]
    /\ UNCHANGED <<workflow, norm, cfg, route>>

NextOps ==
    \/ \E s \in StageSet, st \in {"pending", "processing", "completed", "failed"} :
          CallUpdateStatus(s, st)
    \/ CallAddError
    \/ CallAddWarning

SpecOps == InitOps /\ [][NextOps]_vars

(* ---- should_continue called on its own ---- *)

Statuses == {"pending", "processing", "completed", "failed"}

\* the state dicts should_continue can be handed: any status per stage, with
\* and without errors and warnings
RouteInputs ==
    {[InitialDict EXCEPT !.status = st, !.errors = es, !.warnings = wn] :
        st \in [StageSet -> Statuses],
        es \in {<<>>, <<<<"pdf_extraction", "llm">>>>,
                <<<<"auth_integrations", "llm">>>>},
        wn \in {<<>>, <<<<"behavior_quality">>>>}}

InitRoute ==
    /\ NoRun
    /\ Idle(TRUE, TRUE, TRUE, FALSE)
    /\ route \in {[pc |-> "call", arg |-> d, out |-> "none"] : d \in RouteInputs}

\* route_next_step(state): nodes.should_continue(state)
RouteNextStep ==
    /\ route.pc = "call"
    /\ route' = [route EXCEPT !.pc = "done", !.out = should_continue(route.arg)]
    /\ UNCHANGED <<workflow, norm, cfg, ops>>

NextRoute == RouteNextStep

SpecRoute == InitRoute /\ [][NextRoute]_vars

(* ---- Properties ---- *)

Terminal == {"completed", "failed"}

Failures == {"input", "llm", "parse"}

\* stages whose node has returned
Finished == {trace[i][1] : i \in 1..Len(trace)}

\* stages whose node is executing
Running == {n \in StageSet : local[n] # <<>>}

\* what the invocations of stage s amounted to
OutcomesOf(s) == {trace[i][2] : i \in {j \in 1..Len(trace) : trace[j][1] = s}}

\* every invocation so far completed its stage
AllCompleted == \A i \in 1..Len(trace) : trace[i][2] \in {"ok", "warn"}

\* C1: once a stage's status is completed or failed it never becomes pending
\* or processing again, in the graph state and in the workspace a node works on
C1_StatusNeverRegresses ==
    [][\A s \in StageSet :
         /\ state.status[s] \in Terminal => state'.status[s] \in Terminal
         /\ \A n \in StageSet :
              local'[n] # <<>> =>
                LET before == IF local[n] # <<>> THEN local[n][1]
                                                 ELSE FromDict(state)
                IN before.status[s] \in Terminal
                      => local'[n][1].status[s] \in Terminal]_vars

\* C2: once pdf_extraction has failed no later stage node is visited, and the
\* later stages are still pending when the run ends
C2_CriticalFailureHalts ==
    state.status["pdf_extraction"] = "failed" =>
        /\ Range(visited) \cap LaterStages = {}
        /\ pc = "END" => \A s \in LaterStages : state.status[s] = "pending"

\* C3: after pdf_extraction completed, when an analysis stage has just ended
\* failed the next node started is the next stage in dependency order, and a
\* run with a failed analysis stage does not end before diagram_generation and
\* output_composition have run
C3_FailedAnalysisProceeds ==
    /\ [][\A a \in AnalysisStages :
            (/\ state.status["pdf_extraction"] = "completed"
             /\ Len(trace) > 0
             /\ trace[Len(trace)][1] = a
             /\ trace[Len(trace)][2] \in Failures
             /\ Len(visited') = Len(visited) + 1)
            => visited'[Len(visited')] = Stages[StageIndex(a) + 1]]_vars
    /\ []((/\ pc # "running"
           /\ "pdf_extraction" \in Finished
           /\ OutcomesOf("pdf_extraction") \subseteq {"ok", "warn"}
           /\ \E a \in AnalysisStages : OutcomesOf(a) \cap Failures # {})
          => {"diagram_generation", "output_composition"} \subseteq Finished)

\* C4: an analysis stage starts only after pdf_extraction has run,
\* diagram_generation only after the three analysis stages have run, and
\* output_composition only after diagram_generation has run
C4_DependencyOrder ==
    \A s \in Range(visited) :
        /\ s \in AnalysisStages => "pdf_extraction" \in Finished
        /\ s = "diagram_generation" => AnalysisStages \subseteq Finished
        /\ s = "output_composition" => "diagram_generation" \in Finished

C4_Witness ==
    /\ policy = "conditional"
    /\ local["output_composition"] # <<>>
    /\ visited = Stages

\* C5: at most one stage node is enabled or executing at any moment
C5_OneStageAtATime ==
    /\ Cardinality(active \cap StageSet) <= 1
    /\ Cardinality(Running) <= 1

\* C6: every run eventually reaches END, given that every stage invocation
\* that starts also returns
C6_RunReachesEnd == <>(pc = "END")

\* C7: at run end success is true exactly when pdf_extraction completed; a
\* failed extraction is reported with success false and errors that name it
\* (the input problem when the path is invalid); the failures of the other
\* stages of a successful run are all listed in errors
C7_SuccessIffExtractionCompleted ==
    pc = "END" =>
        LET r == result[1]
            failed == {trace[i] : i \in {j \in 1..Len(trace) :
                                            trace[j][2] \in Failures}}
        IN /\ r.success <=> state.status["pdf_extraction"] = "completed"
           /\ r.success <=> OutcomesOf("pdf_extraction") \cap {"ok", "warn"} # {}
           /\ OutcomesOf("pdf_extraction") \cap Failures # {} =>
                /\ ~r.success
                /\ \E i \in 1..Len(r.errors) : r.errors[i][1] = "pdf_extraction"
                /\ ~valid => <<"pdf_extraction", "input">> \in Range(r.errors)
           /\ r.success => failed \subseteq Range(r.errors)

C7_Witness ==
    /\ pc = "END"
    /\ result[1].success
    /\ Len(result[1].errors) > 0

\* C8: when pdf_extraction completed and the backend call of exactly one
\* analysis stage raised, at run end errors holds exactly one entry of that
\* stage and the stage's fields are empty
C8_OneErrorAndEmptyFields ==
    \A a \in AnalysisStages :
        (/\ pc = "END"
         /\ state.status["pdf_extraction"] = "completed"
         /\ {b \in AnalysisStages : "llm" \in OutcomesOf(b)} = {a})
        => /\ Cardinality({i \in 1..Len(state.errors) :
                              state.errors[i][1] = a}) = 1
           /\ state.facet[a] = "empty"

\* C9: a conditional run started from a workspace whose first stages are
\* completed (the first three: pdf_extraction, auth_integrations,
\* domain_api_design) starts with the stage after them (behavior_quality),
\* never runs the completed stages again, and ends in the workspace that
\* running all the stages from scratch with the same outputs gives
C9_ResumeSkipsCompleted ==
    /\ Len(visited) > 0 => visited[1] = Stages[resumed + 1]
    /\ \A i \in 1..resumed : Stages[i] \notin Range(visited)
    /\ pc = "END" =>
          FromDict(state) = RunStages(create_initial_state, trace, doc)

C9_Witness ==
    /\ resumed = 3
    /\ pc = "END"
    /\ visited[1] = "behavior_quality"

\* C10: when every stage completes, the sequential and the conditional policy
\* both visit the six stages once each in declaration order and end in the
\* workspace those six completions give
C10_ConditionalMatchesSequential ==
    (/\ pc = "END"
     /\ policy \in {"sequential", "conditional"}
     /\ AllCompleted)
    => /\ visited = Stages
       /\ \A i \in 1..Len(Stages) : trace[i][1] = Stages[i]
       /\ Len(trace) = Len(Stages)
       /\ FromDict(state) = RunStages(create_initial_state, trace, doc)

C10_Witness ==
    /\ pc = "END"
    /\ policy = "conditional"
    /\ AllCompleted
    /\ \E i \in 1..Len(trace) : trace[i][2] = "warn"

(* ---- Properties of the normalizer ---- *)

\* v holds, at some depth, a non-empty mapping whose keys are all digits
RECURSIVE HasIndexKeyed(_)
HasIndexKeyed(v) ==
    \/ v.t = "dict" /\ AllDigitKeys(v)
    \/ \E i \in 1..Len(v.items) : HasIndexKeyed(v.items[i])

\* a non-empty mapping whose keys are all digit strings
IsDigitStringDict(v) ==
    /\ v.t = "dict"
    /\ Len(v.keys) > 0
    /\ \A i \in 1..Len(v.keys) : ~v.keys[i].int /\ isdigit(v.keys[i])

\* the orders in which n keys can be listed
Orders(n) == {p \in [1..n -> 1..n] : \A i, j \in 1..n : i # j => p[i] # p[j]}

\* v is {"0": s[0], "1": s[1], ...} for a sequence s of Len(v.keys) elements
\* that hold no index-keyed mapping (a mapping has no order of its own)
IsEncoding(v) ==
    /\ v.t = "dict"
    /\ {v.keys[i] : i \in 1..Len(v.keys)}
          = {StrKey(ToStr(i - 1)) : i \in 1..Len(v.keys)}
    /\ \A i \in 1..Len(v.items) : ~HasIndexKeyed(v.items[i])

\* the sequence that v encodes
Decoded(v) == List([i \in 1..Len(v.keys) |-> GetItem(v, StrKey(ToStr(i - 1)))])

\* C11: a non-empty mapping whose keys are all digit strings comes back as a
\* sequence with one element per key, in ascending order of the keys' numbers,
\* each element the normalized value of its key
C11_DigitKeysBecomeSequence ==
    (norm.pc = "done" /\ IsDigitStringDict(norm.arg)) =>
        /\ norm.out.t = "list"
        /\ Len(norm.out.items) = Len(norm.arg.keys)
        /\ \E p \in Orders(Len(norm.arg.keys)) :
              /\ \A i, j \in 1..Len(norm.arg.keys) :
                    i < j => ToInt(norm.arg.keys[p[i]].chars)
                               <= ToInt(norm.arg.keys[p[j]].chars)
              /\ \A i \in 1..Len(norm.arg.keys) :
                    norm.out.items[i] = ToPy(norm.arg.items[p[i]])

\* C12 as stated: the index-keyed encoding of a sequence of any length, the
\* empty one included, comes back as that sequence
C12_RoundTripAnyLength ==
    (norm.pc = "done" /\ IsEncoding(norm.arg)) => norm.out = Decoded(norm.arg)

\* C12 as amended: the index-keyed encoding of a non-empty sequence comes back
\* as that sequence, same length and order
C12_RoundTripNonEmpty ==
    (norm.pc = "done" /\ IsEncoding(norm.arg) /\ Len(norm.arg.keys) > 0)
        => norm.out = Decoded(norm.arg)

C12_Witness ==
    /\ norm.pc = "done"
    /\ norm.arg = Dict(<<StrKey(<<1>>), StrKey(<<0>>)>>, <<Scalar(2), Scalar(1)>>)
    /\ norm.out = List(<<Scalar(1), Scalar(2)>>)

\* C13: what _to_py returns holds no index-keyed mapping at any depth
C13_NoIndexKeyedLeft ==
    (norm.pc = "done" /\ norm.out # Raised) => ~HasIndexKeyed(norm.out)

C13_Witness ==
    /\ norm.pc = "done"
    /\ norm.arg = Dict(<<StrKey(<<NonDigit>>)>>,
                       <<List(<<Dict(<<StrKey(<<0>>)>>, <<Scalar(1)>>)>>)>>)
    /\ norm.out = Dict(<<StrKey(<<NonDigit>>)>>,
                       <<List(<<List(<<Scalar(1)>>)>>)>>)

\* C14: a mapping with a key that is not a digit string comes back as a
\* mapping with the same keys and normalized values, a sequence as a sequence
\* of the same length and order with normalized elements, a scalar as it is
C14_OtherValuesKeepShape ==
    norm.pc = "done" =>
        /\ (norm.arg.t = "dict" /\ Len(norm.arg.keys) > 0 /\ ~AllDigitKeys(norm.arg))
              => /\ norm.out.t = "dict"
                 /\ norm.out.keys = norm.arg.keys
                 /\ norm.out.items = [i \in 1..Len(norm.arg.items) |->
                                         ToPy(norm.arg.items[i])]
        /\ norm.arg.t = "list"
              => /\ norm.out.t = "list"
                 /\ norm.out.items = [i \in 1..Len(norm.arg.items) |->
                                         ToPy(norm.arg.items[i])]
        /\ norm.arg.t = "scalar" => norm.out = norm.arg


(* ---- Properties of a stage's failure paths ---- *)

IsPrefix(p, q) ==
    /\ Len(p) <= Len(q)
    /\ SubSeq(q, 1, Len(p)) = p

\* the step in which node n returns with effective outcome e
Returns(n, e) ==
    /\ local[n] # <<>>
    /\ returned' [n] # <<>>
    /\ trace' = Append(trace, <<n, e>>)

\* what a node hands back when its agent failed with kind: the result says
\* so, the stage is failed, one error is added after those the agent was
\* given, and the stage's facet is as it was before the call
FailedWith(n, kind) ==
    LET before == local[n][1]
        d == returned'[n][1]
    IN /\ d.node_result = <<[success |-> FALSE, error |-> kind]>>
       /\ d.status[n] = "failed"
       /\ d.errors = Append(before.errors, <<n, kind>>)
       /\ d.warnings = before.warnings
       /\ d.facet[n] = before.facet[n]
       /\ d.facet[n] = state.facet[n]

\* C15: when the backend call raises inside a stage's process, the node
\* still returns: success is false with the "LLM call failed" error, the
\* stage is failed, exactly one error is appended, and the stage's facet is
\* what it was before the call.
C15_BackendFailureIsReported ==
    [][\A n \in StageSet : Returns(n, "llm") => FailedWith(n, "llm")]_vars

C15_Witness ==
    /\ returned["auth_integrations"] # <<>>
    /\ returned["auth_integrations"][1].node_result =
           <<[success |-> FALSE, error |-> "llm"]>>
    /\ returned["auth_integrations"][1].status["auth_integrations"] = "failed"

\* C16: extraction on a document path that is missing or has no recognized
\* extension never reaches the backend (whatever the backend would have
\* answered, the outcome is the input error), returns success false with
\* "Invalid PDF path", leaves pdf_extraction failed, has_errors() true and
\* extracted empty.
C16_InvalidPathFailsBeforeBackend ==
    [][(~valid /\ local["pdf_extraction"] # <<>>
               /\ returned'["pdf_extraction"] # <<>>)
       => /\ Returns("pdf_extraction", "input")
          /\ FailedWith("pdf_extraction", "input")
          /\ has_errors(FromDict(returned'["pdf_extraction"][1]))
          /\ returned'["pdf_extraction"][1].facet["pdf_extraction"] = "empty"]_vars

C16_Witness ==
    /\ ~valid
    /\ returned["pdf_extraction"] # <<>>
    /\ returned["pdf_extraction"][1].node_result =
           <<[success |-> FALSE, error |-> "input"]>>
    /\ trace = <<<<"pdf_extraction", "input">>>>

(* ---- Properties of the configuration ---- *)

\* C17: a configuration whose image_format is not svg or png, or whose
\* renderer is not kroki or mmdc, raises at construction and no workspace is
\* ever created for it; every combination of recognized values is accepted.
C17_BadConfigurationStopsTheRun ==
    /\ (cfg.image_format \notin {"svg", "png"} \/ cfg.renderer \notin {"kroki", "mmdc"})
         => /\ cfg.pc \in {"idle", "pressed", "ValidationError"}
            /\ cfg.workspace = <<>>
    /\ (cfg.image_format \in {"svg", "png"} /\ cfg.renderer \in {"kroki", "mmdc"})
         => cfg.pc # "ValidationError"

C17_Witness ==
    /\ cfg.pc = "ValidationError"
    /\ cfg.image_format = "invalid"
    /\ cfg.renderer = "kroki"
    /\ cfg.workspace = <<>>

C17_WitnessAccepted ==
    /\ cfg.pc = "run"
    /\ cfg.image_format = "svg"
    /\ cfg.renderer = "mmdc"
    /\ cfg.workspace # <<>>

(* ---- Properties of the workspace ---- *)

\* every state dict of the run: the shared one and those the nodes hold
Dicts ==
    {state} \cup {returned[n][1] : n \in {m \in StageSet : returned[m] # <<>>}}

Workspaces ==
    {FromDict(d) : d \in Dicts}
        \cup {local[n][1] : n \in {m \in StageSet : local[m] # <<>>}}

\* C18: right after create_initial_state the status has one entry per stage,
\* all pending, errors and warnings are empty and every facet is empty; in
\* every later state each of the six stages has exactly one status entry.
C18_OneStatusEntryPerStage ==
    /\ (steps = 0 /\ visited = <<>>) =>
          /\ DOMAIN state.status = StageSet
          /\ \A s \in StageSet : state.status[s] = "pending"
          /\ state.errors = <<>>
          /\ state.warnings = <<>>
          /\ \A s \in StageSet : state.facet[s] = "empty"
    /\ \A ws \in Workspaces : DOMAIN ws.status = StageSet
    /\ Cardinality(StageSet) = 6

C18_Witness ==
    /\ pc = "END"
    /\ policy = "sequential"
    /\ DOMAIN state.status = StageSet
    /\ \A s \in StageSet : state.status[s] \in {"completed", "failed"}
    /\ state.status["diagram_generation"] = "failed"

\* C19: errors and warnings only grow, under every policy: what a node is
\* given holds the state's entries, what it returns holds at the same
\* positions the entries it was given, and so does the next state.
C19_DiagnosticsOnlyGrow ==
    [][/\ IsPrefix(state.errors, state'.errors)
       /\ IsPrefix(state.warnings, state'.warnings)
       /\ \A n \in StageSet :
            /\ (local[n] = <<>> /\ local'[n] # <<>>) =>
                  /\ IsPrefix(state.errors, local'[n][1].errors)
                  /\ IsPrefix(state.warnings, local'[n][1].warnings)
            /\ (local[n] # <<>> /\ returned'[n] # <<>>) =>
                  /\ IsPrefix(local[n][1].errors, returned'[n][1].errors)
                  /\ IsPrefix(local[n][1].warnings, returned'[n][1].warnings)
                  /\ IsPrefix(state.errors, returned'[n][1].errors)
                  /\ IsPrefix(state.warnings, returned'[n][1].warnings)]_vars

C19_Witness ==
    /\ pc = "END"
    /\ Len(state.errors) >= 2
    /\ Len(state.warnings) >= 1
    /\ state.errors[1][1] # state.errors[2][1]

\* C20: after any calls of update_status, add_error and add_warning,
\* is_stage_completed(s) holds exactly when the last update_status for s set
\* completed, has_errors() holds exactly when add_error was called; so a
\* warning never counts as an error, and a stage's entry is what the last
\* update_status for that stage set (pending when there was none).
C20_OperationsKeepTheirMeaning ==
    /\ \A s \in StageSet :
         /\ is_stage_completed(ops.ws, s) <=> ops.last[s] = "completed"
         /\ ops.ws.status[s] = IF ops.last[s] = "none" THEN "pending"
                                                        ELSE ops.last[s]
    /\ has_errors(ops.ws) <=> ops.errs > 0
    /\ Len(ops.ws.errors) = ops.errs

C20_Witness ==
    /\ ops.calls = 3
    /\ ops.last["pdf_extraction"] = "completed"
    /\ ops.last["domain_api_design"] = "failed"
    /\ ops.errs = 0
    /\ Len(ops.ws.warnings) = 1
    /\ ~has_errors(ops.ws)
    /\ is_stage_completed(ops.ws, "pdf_extraction")

(* ---- Properties of should_continue ---- *)

\* the first stage of the dependency order that is not completed in d, or
\* "END" when there is none
FirstNotCompleted(d) ==
    LET open == {i \in 1..Len(Stages) : d.status[Stages[i]] # "completed"} IN
    IF open = {} THEN "END"
    ELSE Stages[CHOOSE i \in open : \A j \in open : i <= j]

\* C21: when pdf_extraction has not failed, should_continue returns the first
\* stage of the order that is not completed, and END exactly when all six
\* stages are completed.
C21_FirstStageNotCompleted ==
    (route.pc = "done" /\ route.arg.status["pdf_extraction"] # "failed") =>
        /\ route.out = FirstNotCompleted(route.arg)
        /\ route.out = "END" <=>
              \A s \in StageSet : route.arg.status[s] = "completed"

C21_Witness ==
    /\ route.pc = "done"
    /\ route.arg.status["pdf_extraction"] = "completed"
    /\ route.arg.status["auth_integrations"] = "completed"
    /\ route.arg.status["domain_api_design"] = "failed"
    /\ route.arg.status["behavior_quality"] = "completed"
    /\ route.arg.errors # <<>>
    /\ route.out = "domain_api_design"

Predecessor(s) == Stages[StageIndex(s) - 1]

\* the status of n's predecessor in every workspace a started node n works on
PredecessorStatusIn(allowed) ==
    policy = "sequential" =>
        \A n \in StageSet \ {"pdf_extraction"} :
            local[n] # <<>> => local[n][1].status[Predecessor(n)] \in allowed

\* C23 as stated: under the sequential policy, whenever a stage node other
\* than pdf_extraction starts, the stage before it in the chain is completed.
C23_PredecessorCompleted == PredecessorStatusIn({"completed"})

\* C23 as amended: under the sequential policy, whenever a stage node other
\* than pdf_extraction starts, the stage before it in the chain has ended:
\* its status is completed or failed, never pending or processing.
C23_PredecessorEnded == PredecessorStatusIn({"completed", "failed"})

C23_Witness ==
    /\ policy = "sequential"
    /\ valid
    /\ local["domain_api_design"] # <<>>
    /\ local["domain_api_design"][1].status["pdf_extraction"] = "completed"
    /\ local["domain_api_design"][1].status["auth_integrations"] = "failed"

C25_AnalysisNeedsExtracted ==
    [][\A a \in AnalysisStages :
         (/\ local[a] # <<>>
          /\ local[a][1].facet["pdf_extraction"] = "empty"
          /\ returned'[a] # <<>>)
         => /\ Returns(a, "input")
            /\ FailedWith(a, "input")
            /\ returned'[a][1].facet[a] = "empty"]_vars

C25_Witness ==
    /\ returned["domain_api_design"] # <<>>
    /\ returned["domain_api_design"][1].facet["pdf_extraction"] = "empty"
    /\ returned["domain_api_design"][1].node_result =
           <<[success |-> FALSE, error |-> "input"]>>
    /\ returned["domain_api_design"][1].status["domain_api_design"] = "failed"
    /\ returned["domain_api_design"][1].facet["domain_api_design"] = "empty"

(* ---- Frame of a stage node ---- *)

\* what stays of dict a in dict b when only stage n may change: the job's
\* identity and every other stage's status entry and facet
SameOutside(n, a, b) ==
    /\ b.pdf_path = a.pdf_path
    /\ b.requirement_name = a.requirement_name
    /\ DOMAIN b.status = DOMAIN a.status
    /\ \A s \in StageSet \ {n} :
         /\ b.status[s] = a.status[s]
         /\ b.facet[s] = a.facet[s]

\* C28: a stage's node changes only that stage's status entry and facet,
\* errors, warnings and "_node_result": document_path, run_name and every
\* other stage's status entry and facet are in the dict the node returns what
\* they were in the dict it was called with, and in the workspace in between.
C28_NodeChangesOnlyItsStage ==
    [][\A n \in StageSet :
         /\ (local[n] = <<>> /\ local'[n] # <<>>) =>
               SameOutside(n, state, local'[n][1])
         /\ (local[n] # <<>> /\ returned'[n] # <<>>) =>
               /\ SameOutside(n, state, returned'[n][1])
               /\ SameOutside(n, local[n][1], returned'[n][1])]_vars

C28_Witness ==
    /\ returned["diagram_generation"] # <<>>
    /\ returned["diagram_generation"][1].status["diagram_generation"] = "completed"
    /\ returned["diagram_generation"][1].facet["diagram_generation"] # "empty"
    /\ returned["diagram_generation"][1].status["auth_integrations"] = "failed"
    /\ returned["diagram_generation"][1].facet["domain_api_design"] # "empty"
    /\ returned["diagram_generation"][1].pdf_path = "selected_path"
    /\ state.status["diagram_generation"] = "pending"

(* ---- The join of the parallel graph ---- *)

\* the entries of errors that stage a wrote
ErrorsOf(es, a) == {i \in 1..Len(es) : es[i][1] = a}

IsIntKeyedDict(v) ==
    /\ v.t = "dict"
    /\ Len(v.keys) > 0
    /\ \A i \in 1..Len(v.keys) : v.keys[i].int

\* the mapping v with each key k written as the string str(k)
WithStringKeys(v) ==
    Dict([i \in 1..Len(v.keys) |-> StrKey(v.keys[i].chars)], v.items)

\* C26: for a non-empty mapping whose keys are native non-negative ints,
\* _to_py returns the sequence it returns for the mapping with the same keys
\* written as decimal strings.
C26_NativeIntKeysAsStrings ==
    (/\ norm.pc = "done"
     /\ IsIntKeyedDict(norm.arg)
     /\ ToPy(WithStringKeys(norm.arg)) # Raised)
    => norm.out = ToPy(WithStringKeys(norm.arg))

\* b has the shape _to_py is to give a as far as emptiness goes: an empty
\* mapping stays an empty mapping, an empty sequence an empty sequence, and
\* what is not empty does not become empty, at every depth
RECURSIVE EmptyKept(_, _)
EmptyKept(a, b) ==
    IF a.t = "scalar" THEN b.t = "scalar"
    ELSE IF a.t = "dict" /\ Len(a.keys) = 0 THEN b = Dict(<<>>, <<>>)
    ELSE IF a.t = "dict" /\ AllDigitKeys(a)
    THEN /\ b.t = "list"
         /\ Len(b.items) = Len(a.keys)
         /\ \A i \in 1..Len(b.items) :
               \E j \in 1..Len(a.items) : EmptyKept(a.items[j], b.items[i])
    ELSE /\ b.t = a.t
         /\ Len(b.items) = Len(a.items)
         /\ \A i \in 1..Len(b.items) : EmptyKept(a.items[i], b.items[i])

\* C27: an empty mapping comes back as an empty mapping and never as an empty
\* sequence, at the top level and at every depth inside mappings and
\* sequences.
C27_EmptyMappingStaysMapping ==
    (norm.pc = "done" /\ norm.out # Raised) =>
        /\ norm.arg = Dict(<<>>, <<>>) => norm.out = Dict(<<>>, <<>>)
        /\ EmptyKept(norm.arg, norm.out)

C27_Witness ==
    /\ norm.pc = "done"
    /\ norm.arg = Dict(<<StrKey(<<NonDigit>>)>>,
                       <<Dict(<<StrKey(<<0>>)>>, <<List(<<Dict(<<>>, <<>>)>>)>>)>>)
    /\ norm.out = Dict(<<StrKey(<<NonDigit>>)>>,
                       <<List(<<List(<<Dict(<<>>, <<>>)>>)>>)>>)

\* C30: _to_py is idempotent: applied to what it returned, it returns the
\* same value.
C30_Idempotent ==
    (norm.pc = "done" /\ norm.out # Raised) =>
        /\ ToPy(norm.out) = norm.out
        /\ ToPy(ToPy(norm.arg)) = ToPy(norm.arg)

C30_Witness ==
    /\ norm.pc = "done"
    /\ norm.arg = Dict(<<StrKey(<<0>>)>>,
                       <<Dict(<<StrKey(<<0>>)>>,
                              <<Dict(<<StrKey(<<1>>), StrKey(<<0>>)>>,
                                     <<Scalar(2), Scalar(1)>>)>>)>>)
    /\ norm.out = List(<<List(<<List(<<Scalar(1), Scalar(2)>>)>>)>>)
    /\ norm.out # norm.arg

====
